---- MODULE Spec2Model ----
(***************************************************************************)
(* A model of dl/Util.py of the Data Lab client: the arity-based           *)
(* MultiMethod dispatcher and its multimethod() decorator, the default     *)
(* token resolver def_token()/readTokenFile(), and encode_multipart().     *)
(*                                                                         *)
(* Python strings are sequences of one-character strings, so that          *)
(* concatenation, split('.'), strip('\n'), replace() and len() are         *)
(* computed rather than assumed.  A Python dict is a set of <<key, value>> *)
(* pairs with unique keys.  None is never mixed with strings: an optional  *)
(* value is a sequence holding zero or one element.                        *)
(***************************************************************************)
EXTENDS Integers, Sequences, FiniteSets, TLC

VARIABLES
    method_registry,  \* Util.method_registry: module -> (name -> MultiMethod)
    classattr,        \* what the decorated name is bound to, per (module, name)
    regs,             \* history: registrations MultiMethod.register accepted
    last,             \* the most recent multimethod operation and its outcome
    fs,               \* files, directories and login name def_token() sees
    tokcall,          \* the most recent def_token() call and its outcome
    mpcall            \* an encode_multipart() call: its arguments and its outcome

vars == <<method_registry, classattr, regs, last, fs, tokcall, mpcall>>

---------------------------------------------------------------------------
(* Bounds of the model.                                                    *)
MaxArity == 2      \* overloads are declared with 0..MaxArity arguments
MaxLoads == 2      \* registrations accepted in one run

---------------------------------------------------------------------------
(* Python builtins.                                                        *)

\* key in d
Has(d, k) == \E p \in d : p[1] = k
\* d[key]
Get(d, k) == (CHOOSE p \in d : p[1] = k)[2]
\* d[key] = value
Put(d, k, v) == {p \in d : p[1] # k} \cup {<<k, v>>}

\* str(n) of a non-negative integer: its decimal digits
Digit(d) == <<"0", "1", "2", "3", "4", "5", "6", "7", "8", "9">>[d + 1]
RECURSIVE str_int(_)
str_int(n) == IF n < 10 THEN <<Digit(n)>> ELSE str_int(n \div 10) \o <<Digit(n % 10)>>

---------------------------------------------------------------------------
(* MultiMethod and multimethod().                                          *)

Modules == {<<"s", "c">>, <<"q", "c">>}
Names == {<<"g", "e", "t">>}
\* The overload implementations: function objects, two of each name, so that
\* the callable invoked tells which registration was dispatched to.
Functions == {[__name__ |-> n, id |-> i] : n \in Names, i \in {1, 2}}
Instances == {"obj1", "obj2"}
\* Positional argument lists of every length 0..MaxArity+1, in two typings:
\* all integers, and all strings.
ArgLists == UNION {{[i \in 1..k |-> "1"], [i \in 1..k |-> "'x'"]} : k \in 0..(MaxArity + 1)}
\* Keyword arguments: none, or one.
KwDicts == {{}, {<<"verbose", "True">>}}

NoFunction == [__name__ |-> <<>>, id |-> 0]
NoCall == [raised |-> "", called |-> <<>>, result |-> <<>>]

\* The value a callable returns is opaque: it is determined by the invocation.
ReturnValue(inv) == <<"returned by", inv.function.id, inv.instance, inv.args, inv.kw>>

\* MultiMethod.__init__ (lastreg is the attribute __lastreg__, unset at first)
MultiMethod_init(module, name) ==
    [module |-> module, name |-> name, methodmap |-> {}, lastreg |-> <<>>]

\* A dispatcher that counts the receiver among the arguments.
call_reg_name_counts_receiver(self, args) ==
    self.module \o <<".">> \o self.name \o <<".">> \o str_int(Len(args) + 1)

\* reg_name in MultiMethod.__call__
call_reg_name(self, args) == self.module \o <<".">> \o self.name \o <<".">> \o str_int(Len(args))

\* reg_name in MultiMethod.register
register_reg_name(module, function, nargs) ==
    module \o <<".">> \o function.__name__ \o <<".">> \o str_int(nargs)

\* A dispatcher that forwards the positional arguments only.
MultiMethod_call_drops_kw(self, instance, args, kw) ==
    LET reg_name == call_reg_name(self, args)
    IN  IF ~Has(self.methodmap, reg_name)
        THEN [raised |-> "TypeError: No MultiMethod match found",
              called |-> <<>>, result |-> <<>>, self |-> self]
        ELSE LET function == Get(self.methodmap, reg_name)
                 inv == [function |-> function, instance |-> instance,
                         args |-> args, kw |-> {}]
             IN  [raised |-> "", called |-> <<inv>>, result |-> <<ReturnValue(inv)>>,
                  self |-> self]

\* A dispatcher that picks the overload by the types of the arguments too.
MultiMethod_call_by_type(self, instance, args, kw) ==
    LET reg_name == call_reg_name(self, args)
    IN  IF ~Has(self.methodmap, reg_name) \/ (\E i \in DOMAIN args : args[i] = "'x'")
        THEN [raised |-> "TypeError: No MultiMethod match found",
              called |-> <<>>, result |-> <<>>, self |-> self]
        ELSE LET function == Get(self.methodmap, reg_name)
                 inv == [function |-> function, instance |-> instance,
                         args |-> args, kw |-> kw]
             IN  [raised |-> "", called |-> <<inv>>, result |-> <<ReturnValue(inv)>>,
                  self |-> self]

\* MultiMethod.__call__(self, instance, *args, **kw): the outcome, the
\* invocations it made, what it returns, and self after it
MultiMethod_call(self, instance, args, kw) ==
    LET reg_name == call_reg_name(self, args)
    IN  IF ~Has(self.methodmap, reg_name)
        THEN [raised |-> "TypeError: No MultiMethod match found",
              called |-> <<>>, result |-> <<>>, self |-> self]
        ELSE LET function == Get(self.methodmap, reg_name)
                 inv == [function |-> function, instance |-> instance,
                         args |-> args, kw |-> kw]
             IN  [raised |-> "", called |-> <<inv>>, result |-> <<ReturnValue(inv)>>,
                  self |-> self]

\* A register that stores without looking for an earlier entry.
MultiMethod_register_overwrites(self, nargs, function, module) ==
    [raised |-> "",
     self |-> [self EXCEPT !.methodmap =
                  Put(@, register_reg_name(module, function, nargs), function)]]

\* A register that starts a new method map on each registration.
MultiMethod_register_resets(self, nargs, function, module) ==
    LET reg_name == register_reg_name(module, function, nargs)
    IN  IF Has(self.methodmap, reg_name)
        THEN [raised |-> "TypeError: duplicate registration", self |-> self]
        ELSE [raised |-> "",
              self |-> [self EXCEPT !.methodmap = {<<reg_name, function>>}]]

\* MultiMethod.register(self, nargs, function, module): the outcome and self after it
MultiMethod_register(self, nargs, function, module) ==
    LET reg_name == register_reg_name(module, function, nargs)
    IN  IF Has(self.methodmap, reg_name)
        THEN [raised |-> "TypeError: duplicate registration", self |-> self]
        ELSE [raised |-> "",
              self |-> [self EXCEPT !.methodmap = Put(@, reg_name, function)]]

\* getattr(function, "__lastreg__", function)
lastreg(function) ==
    IF "__lastreg__" \in DOMAIN function THEN function.__lastreg__ ELSE function

\* One registry shared by every namespace.
NamespaceShared(module) == <<"s", "c">>

\* registry = method_registry[module]: the namespace whose dict the closure uses
NamespaceOf(module) == module

\* multimethod(module, nargs), the statements outside the closure
multimethod_outer(mr, module) ==
    IF ~Has(mr, NamespaceOf(module)) THEN Put(mr, NamespaceOf(module), {}) ELSE mr

\* The body of the closure register(function), given the registry after the
\* enclosing multimethod(module, nargs) call: the outcome, the registry after
\* it and the getter it returns.
register_body(mr, module, nargs, function0) ==
    LET function == lastreg(function0)
        name == function.__name__
        ns == NamespaceOf(module)
        registry == Get(mr, ns)
        mm == IF Has(registry, name) THEN Get(registry, name)
              ELSE MultiMethod_init(module, name)
        r == MultiMethod_register(mm, nargs, function, module)
        mm1 == IF r.raised = "" THEN [r.self EXCEPT !.lastreg = <<function>>]
               ELSE r.self
    IN  [raised |-> r.raised,
         mr |-> Put(mr, ns, Put(registry, name, mm1)),
         getter |-> [kind |-> "getter", ns |-> ns, name |-> name]]

Op(op, module, name, nargs, function, instance, args, kw, out) ==
    [op |-> op, module |-> module, name |-> name, nargs |-> nargs,
     function |-> function, instance |-> instance, args |-> args, kw |-> kw,
     raised |-> out.raised, called |-> out.called, result |-> out.result]

\* The registry holds an entry for (module, name, nargs).
Registered(module, name, nargs) ==
    /\ Has(method_registry, module)
    /\ Has(Get(method_registry, module), name)
    /\ Has(Get(Get(method_registry, module), name).methodmap,
           module \o <<".">> \o name \o <<".">> \o str_int(nargs))

\* @multimethod(module, nargs) applied to a function definition.  The closure
\* is wrapped by wrapt.decorator, which treats it as a wrapper
\* (wrapped, instance, args, kwargs) to run on each call of the decorated
\* function: applying it builds a FunctionWrapper around the function and
\* does not run the closure's body.
multimethod(module, nargs, function) ==
    LET name == function.__name__
    IN  /\ method_registry' = multimethod_outer(method_registry, module)
        /\ classattr' = Put(classattr, <<module, name>>, [kind |-> "FunctionWrapper"])
        /\ last' = Op("decorate", module, name, nargs, function, "", <<>>, {}, NoCall)
        /\ UNCHANGED <<regs, fs, tokcall, mpcall>>

\* A call of a method the decorator was applied to: the FunctionWrapper calls
\* its wrapper, register, with (wrapped, instance, args, kwargs), which
\* register(function) does not accept.
FunctionWrapper_call(module, name, instance, args, kw) ==
    /\ Has(classattr, <<module, name>>)
    /\ Get(classattr, <<module, name>>).kind = "FunctionWrapper"
    /\ last' = Op("call", module, name, Len(args), NoFunction, instance, args, kw,
                  [raised |-> "TypeError: register() takes 1 positional argument but 4 were given",
                   called |-> <<>>, result |-> <<>>])
    /\ UNCHANGED <<method_registry, classattr, regs, fs, tokcall, mpcall>>

\* register(function), the closure of multimethod(module, nargs), run with the
\* function alone.
register(module, nargs, function) ==
    LET r == register_body(multimethod_outer(method_registry, module),
                           module, nargs, function)
        name == lastreg(function).__name__
    IN  /\ r.raised # "" \/ Cardinality(regs) < MaxLoads
        /\ method_registry' = r.mr
        /\ IF r.raised = ""
           THEN /\ classattr' = Put(classattr, <<module, name>>, r.getter)
                /\ regs' = regs \cup {<<module, name, nargs, function>>}
           ELSE UNCHANGED <<classattr, regs>>
        /\ last' = Op("register", module, name, nargs, function, "", <<>>, {},
                      [raised |-> r.raised, called |-> <<>>, result |-> <<>>])
        /\ UNCHANGED <<fs, tokcall, mpcall>>

\* getter(instance, *args, **kwargs): the proxy register() returns
getter(module, name, instance, args, kw) ==
    /\ Has(classattr, <<module, name>>)
    /\ LET g == Get(classattr, <<module, name>>)
       IN  /\ g.kind = "getter"
           /\ LET registry == Get(method_registry, g.ns)
                  r == MultiMethod_call(Get(registry, g.name), instance, args, kw)
              IN  /\ last' = Op("dispatch", module, name, Len(args), NoFunction,
                                instance, args, kw, r)
                  /\ method_registry' =
                         Put(method_registry, g.ns, Put(registry, g.name, r.self))
    /\ UNCHANGED <<classattr, regs, fs, tokcall, mpcall>>

\* The other two parts of the module at rest.
IdleFs == [dirs |-> {}, tokens |-> {}, conf |-> <<>>, login |-> <<>>]
NoTokCall == [called |-> FALSE, tok |-> [none |-> TRUE, s |-> <<>>],
              raised |-> "", value |-> <<>>, looked |-> <<>>]
NoMpCall == [called |-> FALSE, fields |-> <<>>, files |-> <<>>, given |-> <<>>,
             boundary |-> <<>>, body |-> <<>>, headers |-> {}]

Init ==
    /\ method_registry = {}
    /\ classattr = {}
    /\ regs = {}
    /\ last = Op("none", <<>>, <<>>, 0, NoFunction, "", <<>>, {}, NoCall)
    /\ fs = IdleFs
    /\ tokcall = NoTokCall
    /\ mpcall = NoMpCall

\* The registry and the dispatcher, driven by register() and the getters it
\* returns.
Next ==
    \/ \E m \in Modules, k \in 0..MaxArity, f \in Functions : register(m, k, f)
    \/ \E m \in Modules, n \in Names, i \in Instances, a \in ArgLists, kw \in KwDicts :
          getter(m, n, i, a, kw)

Spec == Init /\ [][Next]_vars

\* The decorator as the module applies it, and calls of what it returns.
NextDecorator ==
    \/ \E m \in Modules, k \in 0..MaxArity, f \in Functions : multimethod(m, k, f)
    \/ \E m \in Modules, n \in Names, i \in Instances, a \in ArgLists, kw \in KwDicts :
          FunctionWrapper_call(m, n, i, a, kw)

SpecDecorator == Init /\ [][NextDecorator]_vars

---------------------------------------------------------------------------
(* readTokenFile() and def_token().                                        *)

\* 'anonymous.0.0.anon_access'
ANON_TOKEN == <<"a", "n", "o", "n", "y", "m", "o", "u", "s", ".", "0", ".", "0", ".",
                "a", "n", "o", "n", "_", "a", "c", "c", "e", "s", "s">>
\* tok_fd.read(128)
TokReadLen == 128

\* '%s/.datalab' % os.path.expanduser('~')
Home == <<"~", "/", ".", "d", "a", "t", "a", "l", "a", "b">>
\* '%s/dl.conf' % home
ConfPath(home) == home \o <<"/", "d", "l", ".", "c", "o", "n", "f">>
\* '%s/id_token.%s' % (home, user)
TokPath(home, user) == home \o <<"/", "i", "d", "_", "t", "o", "k", "e", "n", ".">> \o user

loggedin == <<"l", "o", "g", "g", "e", "d", "i", "n">>
loggedout == <<"l", "o", "g", "g", "e", "d", "o", "u", "t">>
alice == <<"a", "l", "i", "c", "e">>
bob == <<"b", "o", "b">>
Users == {alice, bob}
\* What a user's token file holds: a token, for alice with the newline an
\* editor leaves.
TokenText(user) ==
    IF user = alice THEN alice \o <<".", "7", ".", "7", ".", "h", "\n">>
    ELSE user \o <<".", "8", ".", "8", ".", "h">>

\* os.path.exists(path)
exists(f, path) ==
    \/ path \in f.dirs
    \/ Has(f.tokens, path)
    \/ (f.conf # <<>> /\ path = ConfPath(Home))

\* f.read(n)
read(text, n) == SubSeq(text, 1, IF Len(text) < n THEN Len(text) ELSE n)

\* s.strip('\n')
RECURSIVE lstrip_nl(_)
lstrip_nl(s) == IF s # <<>> /\ Head(s) = "\n" THEN lstrip_nl(Tail(s)) ELSE s
RECURSIVE rstrip_nl(_)
rstrip_nl(s) ==
    IF s # <<>> /\ s[Len(s)] = "\n" THEN rstrip_nl(SubSeq(s, 1, Len(s) - 1)) ELSE s
strip_nl(s) == rstrip_nl(lstrip_nl(s))

\* s.split('.')
RECURSIVE split_dot(_, _)
split_dot(s, cur) ==
    IF s = <<>> THEN <<cur>>
    ELSE IF Head(s) = "." THEN <<cur>> \o split_dot(Tail(s), <<>>)
    ELSE split_dot(Tail(s), Append(cur, Head(s)))

\* config.get(section, option) of a RawConfigParser that has read dl.conf:
\* the value, or the error it raises
config_get(cfg, section, option) ==
    IF ~Has(cfg, section) THEN [raised |-> "NoSectionError", value |-> <<>>]
    ELSE IF ~Has(Get(cfg, section), option) THEN [raised |-> "NoOptionError", value |-> <<>>]
    ELSE [raised |-> "", value |-> Get(Get(cfg, section), option)]

Returned(value, looked) == [raised |-> "", value |-> value, looked |-> looked]
Raised(exc, looked) == [raised |-> exc, value |-> <<>>, looked |-> looked]

\* readTokenFile(tok_file); looked lists the token files whose existence was
\* tested
readTokenFile(f, tok_file) ==
    IF ~exists(f, tok_file) THEN Returned(ANON_TOKEN, <<tok_file>>)
    ELSE Returned(strip_nl(read(Get(f.tokens, tok_file), TokReadLen)), <<tok_file>>)

\* A resolver that, with nobody logged in, goes on to the OS user's token file.
def_token_falls_back(f, tok) ==
    LET home == Home
    IN  IF tok.none \/ tok.s = <<>>
        THEN IF exists(f, ConfPath(home)) /\ Has(f.conf[1], "login")
                  /\ Has(Get(f.conf[1], "login"), "status")
                  /\ Get(Get(f.conf[1], "login"), "status") = loggedin
                  /\ Has(Get(f.conf[1], "login"), "user")
             THEN readTokenFile(f, TokPath(home, Get(Get(f.conf[1], "login"), "user")))
             ELSE IF f.login = <<>> THEN Raised("OSError", <<>>)
             ELSE readTokenFile(f, TokPath(home, f.login[1]))
        ELSE IF Len(split_dot(tok.s, <<>>)) >= 4 THEN Returned(tok.s, <<>>)
        ELSE IF Len(split_dot(tok.s, <<>>)) = 1
             THEN readTokenFile(f, TokPath(home, tok.s))
        ELSE Returned(ANON_TOKEN, <<>>)

\* def_token(tok)
def_token(f, tok) ==
    LET home == Home
    IN  IF tok.none \/ tok.s = <<>>
        THEN IF exists(f, ConfPath(home))
             THEN LET _status == config_get(f.conf[1], "login", "status")
                  IN  IF _status.raised # "" THEN Raised(_status.raised, <<>>)
                      ELSE IF _status.value = loggedin
                      THEN LET _user == config_get(f.conf[1], "login", "user")
                           IN  IF _user.raised # "" THEN Raised(_user.raised, <<>>)
                               ELSE readTokenFile(f, TokPath(home, _user.value))
                      ELSE Returned(ANON_TOKEN, <<>>)
             ELSE IF f.login = <<>> THEN Raised("OSError", <<>>)
                  ELSE LET tok_file == TokPath(home, f.login[1])
                       IN  IF ~exists(f, home) \/ ~exists(f, tok_file)
                           THEN Returned(ANON_TOKEN, <<tok_file>>)
                           ELSE readTokenFile(f, tok_file)
        ELSE IF Len(split_dot(tok.s, <<>>)) >= 4 THEN Returned(tok.s, <<>>)
        ELSE IF Len(split_dot(tok.s, <<>>)) = 1
             THEN readTokenFile(f, TokPath(home, tok.s))
        ELSE Returned(ANON_TOKEN, <<>>)

\* The contents dl.conf can have: no [login] section, a [login] section
\* without options, and a login status with or without the user option.
Configs ==
    {{}, {<<"login", {}>>}}
    \cup {{<<"login", {<<"status", st>>}>>} : st \in {loggedin, loggedout}}
    \cup {{<<"login", {<<"status", st>>, <<"user", alice>>}>>} : st \in {loggedin, loggedout}}

\* The states of the home directory and the login name: without ~/.datalab
\* there is no file in it; os.getlogin() names bob, or fails for want of a
\* controlling terminal.
Environments ==
    {[dirs |-> {}, tokens |-> {}, conf |-> <<>>, login |-> l] : l \in {<<>>, <<bob>>}}
    \cup {[dirs |-> {Home},
           tokens |-> {<<TokPath(Home, u), TokenText(u)>> : u \in us},
           conf |-> c, login |-> l] :
             us \in SUBSET Users, c \in {<<>>} \cup {<<x>> : x \in Configs},
             l \in {<<>>, <<bob>>}}

\* The arguments: None, '', a user name, and strings of two to five
\* dot-separated parts.
TokInputs ==
    {[none |-> TRUE, s |-> <<>>], [none |-> FALSE, s |-> <<>>],
     [none |-> FALSE, s |-> alice], [none |-> FALSE, s |-> bob],
     [none |-> FALSE, s |-> <<"a", ".", "b">>],
     [none |-> FALSE, s |-> <<"a", ".", "b", ".", "c">>],
     [none |-> FALSE, s |-> <<"a", ".", "b", ".", "c", ".", "d">>],
     [none |-> FALSE, s |-> <<"a", ".", "b", ".", "c", ".", "d", ".", "e">>]}

\* A call def_token(tok)
call_def_token(tok) ==
    /\ LET r == def_token(fs, tok)
       IN  tokcall' = [called |-> TRUE, tok |-> tok, raised |-> r.raised,
                       value |-> r.value, looked |-> r.looked]
    /\ UNCHANGED <<method_registry, classattr, regs, last, fs, mpcall>>

InitToken ==
    /\ method_registry = {}
    /\ classattr = {}
    /\ regs = {}
    /\ last = Op("none", <<>>, <<>>, 0, NoFunction, "", <<>>, {}, NoCall)
    /\ fs \in Environments
    /\ tokcall = NoTokCall
    /\ mpcall = NoMpCall

NextToken == \E tok \in TokInputs : call_def_token(tok)

SpecToken == InitToken /\ [][NextToken]_vars

---------------------------------------------------------------------------
(* encode_multipart().                                                     *)

MaxFields == 2     \* form fields in one call
MaxFiles == 2      \* files in one call
\* range(30): the length of a generated boundary
BoundaryLen == 30

CRLF == <<"\r", "\n">>
DispPrefix == <<"C", "o", "n", "t", "e", "n", "t", "-", "D", "i", "s", "p", "o", "s",
                "i", "t", "i", "o", "n", ":", " ", "f", "o", "r", "m", "-", "d", "a",
                "t", "a", ";", " ", "n", "a", "m", "e", "=", "\"">>
FilenameInfix == <<"\"", ";", " ", "f", "i", "l", "e", "n", "a", "m", "e", "=", "\"">>
ContentTypePrefix == <<"C", "o", "n", "t", "e", "n", "t", "-", "T", "y", "p", "e", ":", " ">>
MultipartPrefix == <<"m", "u", "l", "t", "i", "p", "a", "r", "t", "/", "f", "o", "r", "m",
                     "-", "d", "a", "t", "a", ";", " ", "b", "o", "u", "n", "d", "a",
                     "r", "y", "=">>
OctetStream == <<"a", "p", "p", "l", "i", "c", "a", "t", "i", "o", "n", "/", "o", "c",
                 "t", "e", "t", "-", "s", "t", "r", "e", "a", "m">>
TextPlain == <<"t", "e", "x", "t", "/", "p", "l", "a", "i", "n">>
ImagePng == <<"i", "m", "a", "g", "e", "/", "p", "n", "g">>

\* escape_quote(s): s.replace('"', '\\"')
RECURSIVE escape_quote(_)
escape_quote(s) ==
    IF s = <<>> THEN <<>>
    ELSE (IF Head(s) = "\"" THEN <<"\\", "\"">> ELSE <<Head(s)>>) \o escape_quote(Tail(s))

\* str(value) of a field value, a string or an integer
py_str(value) == IF value.kind = "int" THEN str_int(value.n) ELSE value.s

\* mimetypes.guess_type(filename)[0]: the type of a .txt name (in either
\* case), None for a name it does not know
guess_type(filename) ==
    LET n == Len(filename)
        ext == IF n >= 4 THEN SubSeq(filename, n - 3, n) ELSE <<>>
    IN  IF ext \in {<<".", "t", "x", "t">>, <<".", "T", "X", "T">>} THEN <<TextPlain>>
        ELSE <<>>

\* A join that separates the lines by a bare newline.
join_lf(sep, lines) ==
    LET RECURSIVE j(_)
        j(ls) == IF Len(ls) = 0 THEN <<>>
                 ELSE IF Len(ls) = 1 THEN ls[1]
                 ELSE ls[1] \o <<"\n">> \o j(Tail(ls))
    IN  j(lines)

\* sep.join(lines)
join(sep, lines) ==
    LET RECURSIVE j(_)
        j(ls) == IF Len(ls) = 0 THEN <<>>
                 ELSE IF Len(ls) = 1 THEN ls[1]
                 ELSE ls[1] \o sep \o j(Tail(ls))
    IN  j(lines)

\* The lines of one form field
field_lines(boundary, item) ==
    << <<"-", "-">> \o boundary,
       DispPrefix \o escape_quote(item.name) \o <<"\"">>,
       <<>>,
       py_str(item.value) >>

\* The lines of one file
file_lines(boundary, item) ==
    LET filename == item.value.filename
        mimetype == IF item.value.mimetype # <<>> THEN item.value.mimetype[1]
                    ELSE IF guess_type(filename) # <<>> THEN guess_type(filename)[1]
                    ELSE OctetStream
    IN  << <<"-", "-">> \o boundary,
           DispPrefix \o escape_quote(item.name) \o FilenameInfix
               \o escape_quote(filename) \o <<"\"">>,
           ContentTypePrefix \o mimetype,
           <<>>,
           item.value.content >>

\* for name, value in fields.items(): lines.extend(...)
RECURSIVE fields_lines(_, _)
fields_lines(boundary, items) ==
    IF items = <<>> THEN <<>>
    ELSE field_lines(boundary, Head(items)) \o fields_lines(boundary, Tail(items))

\* for name, value in files.items(): lines.extend(...)
RECURSIVE files_lines(_, _)
files_lines(boundary, items) ==
    IF items = <<>> THEN <<>>
    ELSE file_lines(boundary, Head(items)) \o files_lines(boundary, Tail(items))

\* encode_multipart(fields, files, boundary) with the boundary in use: the
\* dicts are given as their items in iteration order
encode_multipart(fields, files, boundary) ==
    LET lines == fields_lines(boundary, fields)
                 \o files_lines(boundary, files)
                 \o << <<"-", "-">> \o boundary \o <<"-", "-">>, <<>> >>
        body == join(CRLF, lines)
    IN  [body |-> body,
         headers |-> {<<"Content-Type", MultipartPrefix \o boundary>>,
                      <<"Content-Length", str_int(Len(body))>>}]

PyStr(s) == [kind |-> "str", s |-> s, n |-> 0]
PyInt(n) == [kind |-> "int", s |-> <<>>, n |-> n]
FieldItems ==
    {[name |-> <<"F", "I", "E", "L", "D">>, value |-> PyStr(<<"V", "A", "L", "U", "E">>)],
     [name |-> <<"a", "\"", "b">>, value |-> PyInt(1042)],
     [name |-> <<"n">>, value |-> PyStr(<<>>)]}
FileItems ==
    {[name |-> <<"F", "I", "L", "E">>,
      value |-> [filename |-> <<"F", ".", "T", "X", "T">>,
                 content |-> <<"C", "O", "N", "T", "E", "N", "T">>, mimetype |-> <<>>]],
     [name |-> <<"f">>,
      value |-> [filename |-> <<"d", "\"">>, content |-> <<"x", "\r", "\n", "y">>,
                 mimetype |-> <<>>]],
     [name |-> <<"g">>,
      value |-> [filename |-> <<"d">>, content |-> <<>>, mimetype |-> <<ImagePng>>]]}

\* The items of a dict over the given entries: no key twice.
ItemLists(S, max) ==
    UNION {{s \in [1..n -> S] : \A i, j \in 1..n : i # j => s[i].name # s[j].name} :
              n \in 0..max}

\* A caller's boundary, and what random.choice can draw for a missing one.
GivenBoundaries == {<<"B", "O", "U", "N", "D", "A", "R", "Y">>, <<>>}
RandomBoundaries == {[i \in 1..BoundaryLen |-> "0"], [i \in 1..BoundaryLen |-> "z"]}

\* The call encode_multipart(fields, files, boundary) on the arguments held
\* in mpcall; given is the boundary argument, empty for None
call_encode_multipart ==
    /\ ~mpcall.called
    /\ \E b \in (IF mpcall.given = <<>> THEN RandomBoundaries ELSE {mpcall.given[1]}) :
          LET r == encode_multipart(mpcall.fields, mpcall.files, b)
          IN  mpcall' = [mpcall EXCEPT !.called = TRUE, !.boundary = b,
                                       !.body = r.body, !.headers = r.headers]
    /\ UNCHANGED <<method_registry, classattr, regs, last, fs, tokcall>>

InitMultipart ==
    /\ method_registry = {}
    /\ classattr = {}
    /\ regs = {}
    /\ last = Op("none", <<>>, <<>>, 0, NoFunction, "", <<>>, {}, NoCall)
    /\ fs = IdleFs
    /\ tokcall = NoTokCall
    /\ \E fields \in ItemLists(FieldItems, MaxFields),
          files \in ItemLists(FileItems, MaxFiles),
          given \in {<<>>} \cup {<<b>> : b \in GivenBoundaries} :
             mpcall = [NoMpCall EXCEPT !.fields = fields, !.files = files,
                                       !.given = given]

NextMultipart == call_encode_multipart

SpecMultipart == InitMultipart /\ [][NextMultipart]_vars

---------------------------------------------------------------------------
(* Properties of the registry and the dispatcher.                          *)

\* The step just taken is the operation `last'` describes.
Stepped == last' # last
\* The registrations accepted under (module, name) for arity k.
RegsFor(module, name, k) == {r \in regs : r[1] = module /\ r[2] = name /\ r[3] = k}
\* The callables the last operation invoked, in order.
Invoked(l) == [i \in DOMAIN l.called |-> l.called[i].function]
\* Every (namespace, name, key, callable) entry of the registry.
Entries(mr) ==
    UNION {UNION {{<<ns[1], mm[1], e[1], e[2]>> : e \in mm[2].methodmap} : mm \in ns[2]} : ns \in mr}

C3_RegisteredAtDecoration ==
    /\ [](last.op = "decorate" => Registered(last.module, last.name, last.nargs))
    /\ [][(Stepped /\ last'.op = "call") => method_registry' = method_registry]_vars

---------------------------------------------------------------------------
(* Properties of def_token.                                                *)

\* The call was given no token: None or ''.
NoTokenGiven == tokcall.called /\ (tokcall.tok.none \/ tokcall.tok.s = <<>>)
\* dl.conf is there and records the given login status.
ConfStatus(st) ==
    /\ fs.conf # <<>>
    /\ Has(fs.conf[1], "login")
    /\ Has(Get(fs.conf[1], "login"), "status")
    /\ Get(Get(fs.conf[1], "login"), "status") = st
\* dl.conf names a logged-in user.
ConfNamesUser == ConfStatus(loggedin) /\ Has(Get(fs.conf[1], "login"), "user")
ConfUser == Get(Get(fs.conf[1], "login"), "user")
\* What a lookup of the user's token file gives: its stripped contents, or
\* the sentinel when there is no such file.
Lookup(user) ==
    IF Has(fs.tokens, TokPath(Home, user))
    THEN strip_nl(read(Get(fs.tokens, TokPath(Home, user)), TokReadLen))
    ELSE ANON_TOKEN

C8_NeverRaisesOnMissingToken ==
    (/\ tokcall.called
     /\ (tokcall.tok.none \/ Len(split_dot(tokcall.tok.s, <<>>)) = 1)
     /\ fs.tokens = {}) =>
        /\ tokcall.raised = ""
        /\ tokcall.value = ANON_TOKEN

---------------------------------------------------------------------------
(* Properties of encode_multipart.                                         *)

\* The body of the docstring's example.
DoctestBody ==
    <<"-", "-", "B", "O", "U", "N", "D", "A", "R", "Y", "\r", "\n">>
    \o <<"C", "o", "n", "t", "e", "n", "t", "-", "D", "i", "s", "p", "o", "s", "i",
       "t", "i", "o", "n", ":", " ", "f", "o", "r", "m", "-", "d", "a", "t", "a", ";",
       " ", "n", "a", "m", "e", "=", "\"", "F", "I", "E", "L", "D", "\"", "\r", "\n">>
    \o <<"\r", "\n">>
    \o <<"V", "A", "L", "U", "E", "\r", "\n">>
    \o <<"-", "-", "B", "O", "U", "N", "D", "A", "R", "Y", "\r", "\n">>
    \o <<"C", "o", "n", "t", "e", "n", "t", "-", "D", "i", "s", "p", "o", "s", "i",
       "t", "i", "o", "n", ":", " ", "f", "o", "r", "m", "-", "d", "a", "t", "a", ";",
       " ", "n", "a", "m", "e", "=", "\"", "F", "I", "L", "E", "\"", ";", " ", "f",
       "i", "l", "e", "n", "a", "m", "e", "=", "\"", "F", ".", "T", "X", "T", "\"",
       "\r", "\n">>
    \o <<"C", "o", "n", "t", "e", "n", "t", "-", "T", "y", "p", "e", ":", " ", "t",
       "e", "x", "t", "/", "p", "l", "a", "i", "n", "\r", "\n">>
    \o <<"\r", "\n">>
    \o <<"C", "O", "N", "T", "E", "N", "T", "\r", "\n">>
    \o <<"-", "-", "B", "O", "U", "N", "D", "A", "R", "Y", "-", "-", "\r", "\n">>

RECURSIVE SumLen(_)
SumLen(lines) == IF lines = <<>> THEN 0 ELSE Len(Head(lines)) + SumLen(Tail(lines))

\* The media type a file's part declares: the one given with the file, else
\* the one its name suggests, else application/octet-stream.
MimeOf(value) ==
    IF value.mimetype # <<>> THEN value.mimetype[1]
    ELSE IF guess_type(value.filename) # <<>> THEN guess_type(value.filename)[1]
    ELSE OctetStream

\* The lines the body is to be made of: four per field, five per file, then
\* the terminator and an empty line.
RECURSIVE FieldPart(_, _)
FieldPart(b, items) ==
    IF items = <<>> THEN <<>>
    ELSE << <<"-", "-">> \o b,
            DispPrefix \o escape_quote(Head(items).name) \o <<"\"">>,
            <<>>,
            py_str(Head(items).value) >> \o FieldPart(b, Tail(items))
RECURSIVE FilePart(_, _)
FilePart(b, items) ==
    IF items = <<>> THEN <<>>
    ELSE << <<"-", "-">> \o b,
            DispPrefix \o escape_quote(Head(items).name) \o FilenameInfix
                \o escape_quote(Head(items).value.filename) \o <<"\"">>,
            ContentTypePrefix \o MimeOf(Head(items).value),
            <<>>,
            Head(items).value.content >> \o FilePart(b, Tail(items))
ExpectedLines(b, fields, files) ==
    FieldPart(b, fields) \o FilePart(b, files) \o << <<"-", "-">> \o b \o <<"-", "-">>, <<>> >>
\* The lines laid out one after the other, each but the last followed by CR LF.
RECURSIVE Laid(_)
Laid(lines) ==
    IF Len(lines) = 1 THEN lines[1] ELSE lines[1] \o <<"\r", "\n">> \o Laid(Tail(lines))

\* The call of the docstring's example.
IsDoctestCall ==
    /\ mpcall.called
    /\ mpcall.fields = <<[name |-> <<"F", "I", "E", "L", "D">>,
                          value |-> PyStr(<<"V", "A", "L", "U", "E">>)]>>
    /\ mpcall.files = <<[name |-> <<"F", "I", "L", "E">>,
                         value |-> [filename |-> <<"F", ".", "T", "X", "T">>,
                                    content |-> <<"C", "O", "N", "T", "E", "N", "T">>,
                                    mimetype |-> <<>>]]>>
    /\ mpcall.given = << <<"B", "O", "U", "N", "D", "A", "R", "Y">> >>

\* C9: the body encode_multipart returns is the CR LF join of four lines per
\* field, five lines per file, the terminator and an empty line; the
\* Content-Length header is the decimal string of the body's length, the sum
\* of the line lengths plus 2 for each join; for the docstring's example the
\* body is the documented one and the header is 193.
C9_BodyAndLength ==
    mpcall.called =>
        LET b == mpcall.boundary
            lines == ExpectedLines(b, mpcall.fields, mpcall.files)
            nlines == 4 * Len(mpcall.fields) + 5 * Len(mpcall.files) + 2
        IN  /\ Len(lines) = nlines
            /\ mpcall.body = Laid(lines)
            /\ Len(mpcall.body) = SumLen(lines) + 2 * (nlines - 1)
            /\ Get(mpcall.headers, "Content-Length") = str_int(Len(mpcall.body))
            /\ Get(mpcall.headers, "Content-Type") = MultipartPrefix \o b
            /\ IsDoctestCall =>
                  /\ mpcall.body = DoctestBody
                  /\ Len(mpcall.body) = 193
                  /\ Get(mpcall.headers, "Content-Length") = <<"1", "9", "3">>

\* The docstring's example has been encoded.
C9_Witness ==
    /\ IsDoctestCall
    /\ Len(mpcall.body) = 193
    /\ Get(mpcall.headers, "Content-Length") = <<"1", "9", "3">>

====
